---- MODULE Spec2Model ----
(***************************************************************************)
(* A model of src/src/ultralabel/tasks/base.py: the Argilla mixin and the  *)
(* abstract Task (template access, parse_output, validate_dataset).        *)
(*                                                                         *)
(* One Task instance is modelled together with the template file its      *)
(* template reference points to.  Every public call is one action; the    *)
(* outcome of the call (value returned or exception raised) is recorded   *)
(* in the variable last.                                                  *)
(***************************************************************************)
EXTENDS Integers, Sequences, FiniteSets, TLC

\* ---------------------------------------------------------------- bounds
MaxInputArgs == 2      \* longest input_args_names list explored
MaxColumns == 2        \* longest columns_in_dataset list explored
MaxReads == 2          \* template reads explored before accesses stop

\* ------------------------------------------------------- Python values
\* A Python value: its type, its items when it is a container (a dict as a
\* set of <<key, value>> pairs, a list as <<index, value>> pairs) and, for a
\* jinja2 Template, the source it was built from.
PyValue(t, its, nds) == [type |-> t, items |-> its, nodes |-> nds]

None == "<None>"
NoneValue == PyValue("NoneType", {}, <<>>)
EmptyDict == PyValue("dict", {}, <<>>)
NoValue == PyValue("", {}, <<>>)

\* The outcome of a call: a returned value or a raised exception.
Return(v) == [kind |-> "return", exc |-> "", msg |-> <<>>, value |-> v]
Raise(e, m) == [kind |-> "raise", exc |-> e, msg |-> m, value |-> NoValue]

\* Python's exception class hierarchy, as far as the classes met here.
ExcBase(cls) ==
    CASE cls = "ValueError" -> "Exception"
      [] cls = "KeyError" -> "LookupError"
      [] cls = "LookupError" -> "Exception"
      [] cls = "NotImplementedError" -> "RuntimeError"
      [] cls = "RuntimeError" -> "Exception"
      [] cls = "FileNotFoundError" -> "OSError"
      [] cls = "OSError" -> "Exception"
      [] cls = "TemplateSyntaxError" -> "Exception"
      [] cls = "Exception" -> "BaseException"
      [] cls = "KeyboardInterrupt" -> "BaseException"
      [] cls = "SystemExit" -> "BaseException"
      [] OTHER -> "object"

RECURSIVE IsInstance(_, _)
IsInstance(cls, of) ==
    IF cls = of THEN TRUE
    ELSE IF cls = "object" THEN FALSE
    ELSE IsInstance(ExcBase(cls), of)

\* ------------------------------------------------------------ input sets
Prompts == {"You are a helpful assistant.", "You are a strict grader."}
Paths == {"tasks/templates/task.jinja2"}
Names == {"text", "label"}
Rows == {{}, {<<"text", "hello">>}, {<<"text", "hello">>, <<"label", "1">>}}
ExtraArgs == {<<>>, <<"extra">>}

SeqsUpTo(S, n) == UNION {[1..k -> S] : k \in 0..n}

\* Contents the template file can hold, as jinja2 token sequences.
TemplateSources ==
    { <<"Rate: ", "{{ text }}">>,
      <<"{% if label %}", "{{ label }}", "{% endif %}">>,
      <<"{% if label %}", "{{ label }}">> }

VARIABLES
    system_prompt,      \* Task.system_prompt
    jinja2_template,    \* Task.__jinja2_template__ (None or a path)
    input_args_names,   \* what the subclass's input_args_names returns
    constructed,        \* the fields as they were at construction
    source,             \* the file at the template path
    reads,              \* completed reads of the template file
    successes,          \* template accesses that returned a Template
    last                \* the most recent call and its outcome

vars == <<system_prompt, jinja2_template, input_args_names, constructed,
          source, reads, successes, last>>

\* ------------------------------------------------------------ Argilla
ArgillaMethods == {"to_argilla_fields", "to_argilla_questions", "to_argilla_record"}

\* The text every default export hook ends its message with.
NotImplementedTail ==
    " is not implemented, if you want to export your dataset as an Argilla dataset you will need to implement this method."

\* A message is the sequence of its parts: the method name (quoted in the
\* source) and the text after it.
NotImplementedMsg(method) == <<method, NotImplementedTail>>

to_argilla_fields(dataset_row, args) ==
    Raise("NotImplementedError", NotImplementedMsg("to_argilla_fields"))

to_argilla_questions_names_fields(dataset_row, args) ==
    Raise("NotImplementedError", NotImplementedMsg("to_argilla_fields"))

to_argilla_questions(dataset_row, args) ==
    Raise("NotImplementedError", NotImplementedMsg("to_argilla_questions"))

to_argilla_record(dataset_row, args) ==
    Raise("NotImplementedError", NotImplementedMsg("to_argilla_record"))

\* ------------------------------------------------------------ template
\* Template(source) of jinja2 parses the source: a block left open, or closed
\* without having been opened, is a TemplateSyntaxError.
RECURSIVE BlockDepth(_, _, _)
BlockDepth(tokens, i, d) ==
    IF i > Len(tokens) THEN d
    ELSE IF tokens[i] = "{% if label %}" THEN BlockDepth(tokens, i + 1, d + 1)
    ELSE IF tokens[i] = "{% endif %}"
         THEN (IF d = 0 THEN -1 ELSE BlockDepth(tokens, i + 1, d - 1))
    ELSE BlockDepth(tokens, i + 1, d)

Template(text) ==
    IF BlockDepth(text, 1, 0) = 0
    THEN Return(PyValue("Template", {}, text))
    ELSE Raise("TemplateSyntaxError", <<"unexpected end of template">>)

TemplateMissingMsg ==
    <<"You must provide a ", "__jinja2_template__", " attribute to your Task subclass.">>

\* The template property on a Task whose reference is ref, with the file at
\* that path being src: the outcome, whether open() was called and whether
\* read() completed.
template_opens_first(ref, src) ==
    IF ~src.exists
    THEN [outcome |-> Raise("FileNotFoundError", <<"No such file or directory">>),
          opened |-> TRUE, read |-> FALSE]
    ELSE IF ref = None
    THEN [outcome |-> Raise("ValueError", TemplateMissingMsg),
          opened |-> TRUE, read |-> TRUE]
    ELSE [outcome |-> Template(src.content), opened |-> TRUE, read |-> TRUE]

template(ref, src) ==
    IF ref = None
    THEN [outcome |-> Raise("ValueError", TemplateMissingMsg),
          opened |-> FALSE, read |-> FALSE]
    ELSE IF ~src.exists
    THEN [outcome |-> Raise("FileNotFoundError", <<"No such file or directory">>),
          opened |-> TRUE, read |-> FALSE]
    ELSE [outcome |-> Template(src.content), opened |-> TRUE, read |-> TRUE]

\* --------------------------------------------------------- parse_output
\* The model outputs handed to parse_output.
Outputs == {"rating: 5", "rating: 1", "[5, 1]", "", "^C"}

RatingDict(r) == PyValue("dict", {<<"rating", r>>, <<"rationale", "as rated">>}, <<>>)

\* The abstract _parse_output.  An override may return any value or raise
\* anything; this one does each, depending on the output it is given: a
\* mapping, a value that is no mapping, an Exception, and an exception that
\* is a BaseException only.
_parse_output(output) ==
    CASE output = "rating: 5" -> Return(RatingDict("5"))
      [] output = "rating: 1" -> Return(RatingDict("1"))
      [] output = "[5, 1]" -> Return(PyValue("list", {<<"0", "5">>, <<"1", "1">>}, <<>>))
      [] output = "" -> Raise("ValueError", <<"no rating found">>)
      [] OTHER -> Raise("KeyboardInterrupt", <<>>)

\* parse_output: the outcome and the arguments _parse_output was called with.
parse_output_no_handler(output) ==
    [outcome |-> _parse_output(output), inner |-> <<output>>]

parse_output_retries(output) ==
    LET r == _parse_output(output)
    IN  IF r.kind = "raise" /\ IsInstance(r.exc, "Exception")
        THEN [outcome |-> Return(EmptyDict), inner |-> <<output>>]
        ELSE [outcome |-> _parse_output("rating: 1"), inner |-> <<output, "rating: 1">>]

parse_output_keeps_one_item(output) ==
    LET r == _parse_output(output)
    IN  IF r.kind = "raise" /\ IsInstance(r.exc, "Exception")
        THEN [outcome |-> Return(EmptyDict), inner |-> <<output>>]
        ELSE IF r.kind = "return" /\ r.value.type = "dict"
        THEN [outcome |-> Return(PyValue("dict",
                             {it \in r.value.items : it[1] = "rating"}, <<>>)),
              inner |-> <<output>>]
        ELSE [outcome |-> r, inner |-> <<output>>]

parse_output(output) ==
    LET r == _parse_output(output)
    IN  IF r.kind = "raise" /\ IsInstance(r.exc, "Exception")
        THEN [outcome |-> Return(EmptyDict), inner |-> <<output>>]
        ELSE [outcome |-> r, inner |-> <<output>>]

\* ------------------------------------------------------ validate_dataset
\* (name in columns) on a list: the elements are compared one by one.
Contains(columns, name) == \E j \in 1..Len(columns) : columns[j] = name

MissingColumnMsg(name) ==
    <<"LLM expects a column named '", name,
      "' in the provided dataset, but it was not found.">>

\* The loop of validate_dataset from the i-th name on: the outcome and the
\* number of names examined.
RECURSIVE ValidateFrom(_, _, _)
ValidateFrom(names, columns, i) ==
    IF i > Len(names)
    THEN [outcome |-> Return(NoneValue), examined |-> Len(names)]
    ELSE IF ~Contains(columns, names[i])
    THEN [outcome |-> Raise("KeyError", MissingColumnMsg(names[i])), examined |-> i]
    ELSE ValidateFrom(names, columns, i + 1)

validate_dataset_first_name_only(names, columns) ==
    IF Len(names) > 0 /\ ~Contains(columns, names[1])
    THEN [outcome |-> Raise("KeyError", MissingColumnMsg(names[1])), examined |-> 1]
    ELSE [outcome |-> Return(NoneValue), examined |-> Len(names)]

validate_dataset_reports_last(names, columns) ==
    LET missing == {i \in 1..Len(names) : ~Contains(columns, names[i])}
    IN  IF missing = {}
        THEN [outcome |-> Return(NoneValue), examined |-> Len(names)]
        ELSE LET k == CHOOSE i \in missing : \A j \in missing : j <= i
             IN  [outcome |-> Raise("KeyError", MissingColumnMsg(names[k])),
                  examined |-> Len(names)]

validate_dataset(names, columns) == ValidateFrom(names, columns, 1)

\* ------------------------------------------------------- state machine
NoCall ==
    [op |-> "", output |-> "", columns |-> <<>>, row |-> {},
     outcome |-> [kind |-> "none", exc |-> "", msg |-> <<>>, value |-> NoValue],
     inner |-> <<>>, examined |-> 0, opened |-> FALSE, prev_kind |-> ""]

\* The record of a call made now: the kind of the outcome of the call before
\* it is kept in prev_kind.
Called(op, outcome) ==
    [NoCall EXCEPT !.op = op, !.outcome = outcome, !.prev_kind = last.outcome.kind]

NoFile == [exists |-> FALSE, content |-> <<>>]
File(text) == [exists |-> TRUE, content |-> text]

\* A Task subclass instance right after construction; the template file is
\* in any state, and nothing has been read.
Init ==
    /\ system_prompt \in Prompts
    /\ jinja2_template \in {None} \cup Paths
    /\ input_args_names \in SeqsUpTo(Names, MaxInputArgs)
    /\ constructed = [system_prompt |-> system_prompt,
                      jinja2_template |-> jinja2_template,
                      input_args_names |-> input_args_names]
    /\ source \in {NoFile} \cup {File(t) : t \in TemplateSources}
    /\ reads = 0
    /\ successes = 0
    /\ last = NoCall

\* The template file is written, or removed, by something outside the Task.
WriteSource(text) ==
    /\ source # File(text)
    /\ source' = File(text)
    /\ UNCHANGED <<system_prompt, jinja2_template, input_args_names, constructed,
                   reads, successes, last>>

RemoveSource ==
    /\ source.exists
    /\ source' = NoFile
    /\ UNCHANGED <<system_prompt, jinja2_template, input_args_names, constructed,
                   reads, successes, last>>

\* self.template, with the Template kept from an earlier access.
AccessTemplateCached ==
    /\ reads < MaxReads
    /\ LET t == template(jinja2_template, source)
           hit == last.op = "template" /\ last.outcome.kind = "return"
       IN  /\ last' = IF hit THEN [last EXCEPT !.prev_kind = last.outcome.kind, !.opened = FALSE]
                      ELSE [Called("template", t.outcome) EXCEPT !.opened = t.opened]
           /\ reads' = IF ~hit /\ t.read THEN reads + 1 ELSE reads
           /\ successes' = IF hit \/ t.outcome.kind = "return"
                           THEN successes + 1 ELSE successes
    /\ UNCHANGED <<system_prompt, jinja2_template, input_args_names, constructed, source>>

\* self.template, with the text read kept in place of the reference.
AccessTemplateKeepsText ==
    /\ reads < MaxReads
    /\ LET t == template(jinja2_template, source)
       IN  /\ last' = [Called("template", t.outcome) EXCEPT !.opened = t.opened]
           /\ reads' = IF t.read THEN reads + 1 ELSE reads
           /\ successes' = IF t.outcome.kind = "return" THEN successes + 1 ELSE successes
           /\ jinja2_template' = IF t.read THEN "<text>" ELSE jinja2_template
    /\ UNCHANGED <<system_prompt, input_args_names, constructed, source>>

\* self.template
AccessTemplate ==
    /\ reads < MaxReads
    /\ LET t == template(jinja2_template, source)
       IN  /\ last' = [Called("template", t.outcome) EXCEPT !.opened = t.opened]
           /\ reads' = IF t.read THEN reads + 1 ELSE reads
           /\ successes' = IF t.outcome.kind = "return" THEN successes + 1 ELSE successes
    /\ UNCHANGED <<system_prompt, jinja2_template, input_args_names, constructed, source>>

\* self.parse_output(output)
CallParseOutput(output) ==
    /\ LET p == parse_output(output)
       IN  last' = [Called("parse_output", p.outcome) EXCEPT
                        !.output = output, !.inner = p.inner]
    /\ UNCHANGED <<system_prompt, jinja2_template, input_args_names, constructed,
                   source, reads, successes>>

\* self.validate_dataset(columns), taking the names off the list as it goes.
CallValidateDatasetConsumes(columns_in_dataset) ==
    /\ LET v == validate_dataset(input_args_names, columns_in_dataset)
       IN  /\ last' = [Called("validate_dataset", v.outcome) EXCEPT
                            !.columns = columns_in_dataset, !.examined = v.examined]
           /\ input_args_names' =
                  SubSeq(input_args_names, v.examined + 1, Len(input_args_names))
    /\ UNCHANGED <<system_prompt, jinja2_template, constructed, source, reads, successes>>

\* self.validate_dataset(columns_in_dataset)
CallValidateDataset(columns_in_dataset) ==
    /\ LET v == validate_dataset(input_args_names, columns_in_dataset)
       IN  last' = [Called("validate_dataset", v.outcome) EXCEPT
                        !.columns = columns_in_dataset, !.examined = v.examined]
    /\ UNCHANGED <<system_prompt, jinja2_template, input_args_names, constructed,
                   source, reads, successes>>

\* self.to_argilla_fields(dataset_row, *args)
CallToArgillaFields(dataset_row, args) ==
    /\ last' = [Called("to_argilla_fields", to_argilla_fields(dataset_row, args))
                    EXCEPT !.row = dataset_row]
    /\ UNCHANGED <<system_prompt, jinja2_template, input_args_names, constructed,
                   source, reads, successes>>

\* self.to_argilla_questions(dataset_row, *args)
CallToArgillaQuestions(dataset_row, args) ==
    /\ last' = [Called("to_argilla_questions", to_argilla_questions(dataset_row, args))
                    EXCEPT !.row = dataset_row]
    /\ UNCHANGED <<system_prompt, jinja2_template, input_args_names, constructed,
                   source, reads, successes>>

\* self.to_argilla_record(dataset_row, *args)
CallToArgillaRecord(dataset_row, args) ==
    /\ last' = [Called("to_argilla_record", to_argilla_record(dataset_row, args))
                    EXCEPT !.row = dataset_row]
    /\ UNCHANGED <<system_prompt, jinja2_template, input_args_names, constructed,
                   source, reads, successes>>

Next ==
    \/ AccessTemplate
    \/ \E output \in Outputs : CallParseOutput(output)
    \/ \E columns \in SeqsUpTo(Names, MaxColumns) : CallValidateDataset(columns)
    \/ \E row \in Rows, args \in ExtraArgs : CallToArgillaFields(row, args)
    \/ \E row \in Rows, args \in ExtraArgs : CallToArgillaQuestions(row, args)
    \/ \E row \in Rows, args \in ExtraArgs : CallToArgillaRecord(row, args)
    \/ \E text \in TemplateSources : WriteSource(text)
    \/ RemoveSource

Spec == Init /\ [][Next]_vars

\* ---------------------------------------------------------------- claims
Range(seq) == {seq[i] : i \in 1..Len(seq)}

\* What the abstract _parse_output did on the output of the last call.
Inner == _parse_output(last.output)

\* C1: validate_dataset(S) raises a KeyError if and only if some name of
\* input_args_names is not in S, and returns if and only if every name of
\* input_args_names is in S (an empty list of names and extra columns
\* included).
C1_ValidateRaisesIffMissing ==
    last.op = "validate_dataset" =>
        LET I == Range(input_args_names)
            S == Range(last.columns)
        IN  /\ (last.outcome.kind = "raise" /\ last.outcome.exc = "KeyError")
                   <=> (\E name \in I : name \notin S)
            /\ (last.outcome = Return(NoneValue)) <=> (I \subseteq S)

\* C1 witness: validation passed although the dataset holds a column the
\* task does not ask for.
C1_Witness ==
    /\ last.op = "validate_dataset"
    /\ last.outcome.kind = "return"
    /\ input_args_names = <<"text">>
    /\ last.columns = <<"text", "label">>

\* C2 as stated: whatever _parse_output raises, parse_output returns the
\* empty mapping.
C2_AnyRaiseGivesEmpty ==
    (last.op = "parse_output" /\ Inner.kind = "raise") =>
        last.outcome = Return(EmptyDict)

\* C2 amended: an exception raised by _parse_output that is an instance of
\* Exception never propagates, parse_output returns the empty mapping; one
\* that is a BaseException only (KeyboardInterrupt) propagates as raised.
C2_ExceptionGivesEmpty ==
    (last.op = "parse_output" /\ Inner.kind = "raise") =>
        IF IsInstance(Inner.exc, "Exception")
        THEN last.outcome = Return(EmptyDict)
        ELSE last.outcome = Inner

\* C2 witness: _parse_output raised a ValueError and parse_output returned.
C2_Witness ==
    /\ last.op = "parse_output"
    /\ Inner.kind = "raise"
    /\ Inner.exc = "ValueError"
    /\ last.outcome.kind = "return"

\* C3: when _parse_output returns, parse_output returns that very value and
\* has called _parse_output once, with the output it was given.
C3_ReturnsInnerValueUnchanged ==
    (last.op = "parse_output" /\ Inner.kind = "return") =>
        /\ last.outcome = Inner
        /\ last.inner = <<last.output>>

\* C3 witness: a mapping of two fields came back from parse_output.
C3_Witness ==
    /\ last.op = "parse_output"
    /\ last.outcome.kind = "return"
    /\ Cardinality(last.outcome.value.items) = 2
    /\ last.outcome.value.type = "dict"

\* The position of the first name of names that is not among columns.
FirstMissing(names, columns) ==
    CHOOSE k \in 1..Len(names) :
        /\ names[k] \notin Range(columns)
        /\ \A j \in 1..(k - 1) : names[j] \in Range(columns)

\* C4: a failing validate_dataset names the first name, in the order of
\* input_args_names, that is not a column, and examines no name after it.
C4_NamesFirstMissing ==
    (last.op = "validate_dataset" /\ last.outcome.kind = "raise") =>
        LET k == FirstMissing(input_args_names, last.columns)
        IN  /\ last.outcome.msg = MissingColumnMsg(input_args_names[k])
            /\ last.examined = k

\* C4 witness: two names are missing and the error is about the first.
C4_Witness ==
    /\ last.op = "validate_dataset"
    /\ last.outcome.kind = "raise"
    /\ Len(input_args_names) = 2
    /\ input_args_names[1] # input_args_names[2]
    /\ last.columns = <<>>
    /\ last.examined = 1

\* C5: with the template reference unset, an access to template raises a
\* ValueError and opens no template file: nothing is ever read.
C5_NoReferenceIsValueError ==
    jinja2_template = None =>
        /\ reads = 0
        /\ last.op = "template" =>
               /\ last.outcome = Raise("ValueError", TemplateMissingMsg)
               /\ ~last.opened

\* C5 witness: the access failed although a readable file was there.
C5_Witness ==
    /\ jinja2_template = None
    /\ last.op = "template"
    /\ source.exists
    /\ last.outcome.kind = "raise"

\* C6: each default export hook raises NotImplementedError with a message
\* that names the method called and neither of the other two.
C6_HooksNameThemselves ==
    last.op \in ArgillaMethods =>
        /\ last.outcome.kind = "raise"
        /\ last.outcome.exc = "NotImplementedError"
        /\ last.op \in Range(last.outcome.msg)
        /\ \A m \in ArgillaMethods \ {last.op} : m \notin Range(last.outcome.msg)

\* C6 witness: to_argilla_questions was called on a row with columns.
C6_Witness ==
    /\ last.op = "to_argilla_questions"
    /\ last.row # {}
    /\ last.outcome.kind = "raise"

\* A step that is an access to template.
TemplateStep == last'.op = "template" /\ source' = source

\* C7 as stated: the reads of the source are as many as the accesses that
\* returned a template.
C7_ReadsEqualSuccesses == reads = successes

\* C7 amended: nothing is read at construction, and every access with a
\* set reference opens the source anew: a source that exists is read once
\* more, and a template returned is built from what the source holds at
\* that access.  Every successful access is a read; a read whose text does
\* not parse is an access that fails.
C7_EveryAccessReadsAfresh ==
    /\ reads = 0
    /\ [][ /\ successes' <= reads'
           /\ (TemplateStep /\ jinja2_template # None) =>
                 /\ last'.opened
                 /\ reads' = IF source.exists THEN reads + 1 ELSE reads
                 /\ successes' =
                        IF last'.outcome.kind = "return" THEN successes + 1 ELSE successes
                 /\ last'.outcome.kind = "return" =>
                        last'.outcome.value = PyValue("Template", {}, source.content)
         ]_vars

\* C7 witness: a second successful access, after a failed one.
C7_Witness ==
    /\ last.op = "template"
    /\ last.outcome.kind = "return"
    /\ last.prev_kind = "raise"
    /\ reads = 2

\* C8: after any calls, failed or not, system_prompt and the template
\* reference are what they were at construction.
C8_FieldsKeepConstructedValues ==
    /\ system_prompt = constructed.system_prompt
    /\ jinja2_template = constructed.jinja2_template

\* C8 witness: a template was returned right after a call that failed.
C8_Witness ==
    /\ last.op = "template"
    /\ last.outcome.kind = "return"
    /\ last.prev_kind = "raise"
    /\ successes = 1

\* C9 as stated: parse_output always yields a mapping, the one
\* _parse_output returned or the empty one.
C9_AlwaysAMapping ==
    last.op = "parse_output" =>
        /\ last.outcome.kind = "return"
        /\ last.outcome.value.type = "dict"
        /\ last.outcome.value = EmptyDict \/ last.outcome.value = Inner.value

\* C9 amended: what parse_output returns is the whole value _parse_output
\* returned, of whatever type, or the empty mapping when _parse_output
\* raised an Exception; it is a mapping whenever _parse_output returned a
\* mapping or raised an Exception, and never a part of a value.
C9_WholeValueOrEmpty ==
    (last.op = "parse_output" /\ last.outcome.kind = "return") =>
        /\ \/ Inner.kind = "return" /\ last.outcome.value = Inner.value
           \/ /\ Inner.kind = "raise"
              /\ IsInstance(Inner.exc, "Exception")
              /\ last.outcome.value = EmptyDict
        /\ (Inner.kind = "raise" \/ Inner.value.type = "dict") =>
               last.outcome.value.type = "dict"

\* C9 witness: parse_output returned a value that is no mapping.
C9_Witness ==
    /\ last.op = "parse_output"
    /\ last.outcome.kind = "return"
    /\ last.outcome.value.type = "list"

\* C10: the outcome of parse_output(o) and of validate_dataset(S) after any
\* earlier calls is the outcome the same call has as the first call on the
\* instance as constructed.
C10_OutcomeAsOnFirstCall ==
    /\ last.op = "validate_dataset" =>
           last.outcome =
               validate_dataset(constructed.input_args_names, last.columns).outcome
    /\ last.op = "parse_output" =>
           IF Inner.kind = "raise" /\ IsInstance(Inner.exc, "Exception")
           THEN last.outcome = Return(EmptyDict)
           ELSE last.outcome = Inner

\* C10 witness: validate_dataset failed right after a call that failed.
C10_Witness ==
    /\ last.op = "validate_dataset"
    /\ last.outcome.kind = "raise"
    /\ last.prev_kind = "raise"

====
